---- MODULE Spec2Model ----
(***************************************************************************)
(* Alert triage of the SOC demo (src/agent/agent.py): AIAgent.triage_alerts *)
(* and the functions it calls, as a state machine, plus a second            *)
(* specification that applies the two pure helpers _fallback_analysis and   *)
(* adjust_confidence_with_feedback to inputs drawn from bounded sets, and   *)
(* the two rule engines (src/rules/detect.py, src/rules/rules_engine.py)    *)
(* run over a data directory.                                               *)
(*                                                                         *)
(* Representation of Python/JSON values:                                   *)
(*   dict      a function from its keys to values; a key the dict lacks is  *)
(*             outside DOMAIN (d.get(k, default) is Get(d, k, default))     *)
(*   None      the record None                                             *)
(*   number    Num(n); a confidence is kept in hundredths (0.6 is Num(60)), *)
(*             a risk score in units                                       *)
(*   string    Str(s); list  List(q); bool  Bool(b)                        *)
(*   the value json.loads returns is Dict(d), List(q) or None               *)
(***************************************************************************)
EXTENDS Integers, Sequences, FiniteSets, TLC

VARIABLES alerts_file, feedback_file, alerts, feedback, triaged_alerts,
          llm_log, pc, fn_alert, fn_analysis, fn_feedback, fn_fallback,
          fn_adjusted, fn_context, data_dir, program, det_pc, self_alerts,
          all_alerts, loaded, handlers, responses, received, agent_pc

vars == <<alerts_file, feedback_file, alerts, feedback, triaged_alerts,
          llm_log, pc, fn_alert, fn_analysis, fn_feedback, fn_fallback,
          fn_adjusted, fn_context, data_dir, program, det_pc, self_alerts,
          all_alerts, loaded, handlers, responses, received, agent_pc>>

run_vars == <<alerts_file, feedback_file, alerts, feedback, triaged_alerts,
              llm_log, pc>>

fn_vars == <<fn_alert, fn_analysis, fn_feedback, fn_fallback, fn_adjusted,
             fn_context>>

det_vars == <<data_dir, program, det_pc, self_alerts, all_alerts, loaded>>

web_vars == <<handlers, responses, received, agent_pc>>

(* ------------------------------ bounds --------------------------------- *)

MaxAlerts == 2

MaxFeedback == 2

MaxActions == 5

(* --------------------------- value encoding ---------------------------- *)

None == [none |-> TRUE]

Num(n) == [num |-> n]

Str(s) == [str |-> s]

List(q) == [list |-> q]

Bool(b) == [bool |-> b]

Dict(d) == [dict |-> d]

IsNum(v) == DOMAIN v = {"num"}

IsDict(v) == DOMAIN v = {"dict"}

Get(d, k, default) == IF k \in DOMAIN d THEN d[k] ELSE default

SetKey(d, k, v) == [x \in DOMAIN d \cup {k} |-> IF x = k THEN v ELSE d[x]]

Take(q, n) == SubSeq(q, 1, IF Len(q) < n THEN Len(q) ELSE n)

SeqsUpTo(S, n) == UNION {[1..k -> S] : k \in 0..n}

DistinctSeqsUpTo(S, n) ==
    {q \in SeqsUpTo(S, n) : \A i, j \in 1..Len(q) : i # j => q[i] # q[j]}

(* str.capitalize() on the severities the model uses *)
capitalize(s) ==
    CASE s = "critical" -> "Critical"
      [] s = "high" -> "High"
      [] s = "medium" -> "Medium"
      [] s = "low" -> "Low"
      [] s = "informational" -> "Informational"
      [] OTHER -> s

(* round(p / q, 0) for q > 0: Python 3 rounds an exact half to the even    *)
(* neighbour.  The confidences of the model are even hundredths, so no      *)
(* exact half occurs while fewer than four entries share a type.            *)
RoundDiv(p, q) ==
    LET fl == p \div q
        r == p - fl * q
    IN  IF 2 * r < q THEN fl
        ELSE IF 2 * r > q THEN fl + 1
        ELSE IF fl % 2 = 0 THEN fl ELSE fl + 1


(* ------------------------------ inputs --------------------------------- *)

AlertTypes == {"impossible_travel", "patch_drift"}

Actions(n) == SubSeq(<<"contact user", "reset credentials", "block address",
                       "review activity", "enable MFA", "open ticket">>, 1, n)

(* alerts.json of a run: alerts as the detectors write them, one of them    *)
(* with a severity outside the enum and one without the severity key        *)
AlertPool ==
    { [id |-> "a1", type |-> "impossible_travel", severity |-> "critical",
       description |-> "d1", suggested_actions |-> Actions(MaxActions)],
      [id |-> "a2", type |-> "patch_drift", severity |-> "high",
       description |-> "d2", suggested_actions |-> Actions(2)],
      [id |-> "a3", type |-> "patch_drift", severity |-> "informational",
       description |-> "d3", suggested_actions |-> Actions(0)],
      [id |-> "a4", type |-> "impossible_travel",
       description |-> "d4", suggested_actions |-> Actions(3)] }

(* feedback.json entries: the keys adjust_confidence_with_feedback reads;   *)
(* an entry may carry an action outside the enum, or no action key          *)
FeedbackPool ==
    { [alert_type |-> "impossible_travel", action |-> "approved"],
      [alert_type |-> "impossible_travel", action |-> "rejected"],
      [alert_type |-> "impossible_travel"],
      [alert_type |-> "patch_drift", action |-> "approved"],
      [alert_type |-> "patch_drift", action |-> "escalated"] }

Histories == SeqsUpTo(FeedbackPool, MaxFeedback)

MissingFile == [exists |-> FALSE, data |-> <<>>]

File(data) == [exists |-> TRUE, data |-> data]

Steps(n) == SubSeq(<<"s1", "s2", "s3", "s4", "s5">>, 1, n)

(* message contents the provider can return.  parts is the content cut at   *)
(* its markdown fences (what str.split on the fence yields), each part       *)
(* either text that is not JSON or JSON text standing for the value it       *)
(* parses to; fence tells whether the first fence is ```json ("json"), a    *)
(* bare ``` ("plain"), or absent ("none", one part).                         *)
Text(t) == [text |-> t]

Json(v) == [json |-> v]

Content(fence, parts) == [fence |-> fence, parts |-> parts]

Bare(part) == Content("none", <<part>>)

Fenced(fence, part) ==
    Content(fence, <<Text("Here is my analysis:"), part, Text("")>>)

EmptyContent == Bare(Text(""))

FullObject ==
    Dict([risk_score |-> Num(7), threat_analysis |-> Str("t5"),
          remediation_steps |-> List(Steps(2)), confidence |-> Num(90),
          feedback_adjusted |-> Bool(FALSE)])

NoRiskObject ==
    Dict([threat_analysis |-> Str("t6"),
          remediation_steps |-> List(Steps(5)), confidence |-> Num(100),
          feedback_adjusted |-> Bool(TRUE)])

TextRiskObject ==
    Dict([risk_score |-> Str("high"), threat_analysis |-> Str("t7"),
          remediation_steps |-> Str("s1"), confidence |-> Num(0)])

NoConfidenceObject ==
    Dict([risk_score |-> Num(7), threat_analysis |-> Str("t8"),
          remediation_steps |-> List(Steps(3))])

TextConfidenceObject ==
    Dict([risk_score |-> Num(4), threat_analysis |-> Str("t9"),
          remediation_steps |-> List(Steps(1)), confidence |-> Str("high"),
          feedback_adjusted |-> Bool(FALSE)])

Contents ==
    { EmptyContent,
      Bare(Text("The alert looks serious.")),
      Fenced("json", Text("risk_score: 7")),
      Fenced("json", Json(FullObject)),
      Bare(Json(NoRiskObject)),
      Fenced("plain", Json(TextRiskObject)),
      Bare(Json(NoConfidenceObject)),
      Fenced("json", Json(TextConfidenceObject)),
      Bare(Json(List(<<>>))) }

(* what requests.post and the reading of the envelope can do *)
LLMOutcomes ==
    { [status |-> "timeout"], [status |-> "bad_envelope"] }
    \cup { [status |-> "ok", content |-> c] : c \in Contents }

(* ----------------------------- AIAgent --------------------------------- *)

(* a call either returns a value or lets an exception escape *)
Return(v) == [returned |-> v]

Raise(e) == [raised |-> e]

Raised(o) == DOMAIN o = {"raised"}

load_alerts(file) == IF file.exists THEN file.data ELSE <<>>

load_feedback(file) == IF file.exists THEN file.data ELSE <<>>

(* the feedback file after load_feedback: a missing file is created empty *)
load_feedback_file(file) == IF file.exists THEN file ELSE File(<<>>)

(* call_llm: every exception is caught and turned into None *)
call_llm(outcome) ==
    IF outcome.status = "ok" THEN outcome.content ELSE None

Falsy(response) == response = None \/ response = EmptyContent

(* the text handed to json.loads: what follows the first ```json up to the *)
(* next fence, else what lies between the first two ```, else the whole     *)
(* response                                                                 *)
strip_fence(response) ==
    CASE response.fence = "json" -> response.parts[2]
      [] response.fence = "plain" -> response.parts[2]
      [] OTHER -> response.parts[1]

(* json.loads: the parsed value, or JSONDecodeError *)
json_loads(body) ==
    IF DOMAIN body = {"json"} THEN Return(body.json)
    ELSE Raise("JSONDecodeError")

severity_scores_shifted ==
    [critical |-> 9, high |-> 8, medium |-> 6, low |-> 4]

severity_scores ==
    [critical |-> 9, high |-> 7, medium |-> 5, low |-> 3]

_fallback_analysis(alert) ==
    LET severity == Get(alert, "severity", "medium")
    IN  Dict([risk_score |-> Num(Get(severity_scores, severity, 5)),
              risk_justification |->
                  Str(capitalize(severity)
                      \o " severity alert detected by rules engine"),
              threat_analysis |->
                  Str("Alert type: " \o alert.type \o ". "
                      \o Get(alert, "description", "Security event detected")),
              operational_impact |->
                  Str("Potential impact on critical infrastructure operations"),
              remediation_steps |->
                  List(Take(Get(alert, "suggested_actions", <<>>), 3)),
              confidence |-> Num(60),
              feedback_adjusted |-> Bool(FALSE)])

analyze_alert(alert, outcome) ==
    LET response == call_llm(outcome)
        parsed == json_loads(strip_fence(response))
    IN  IF Falsy(response) THEN _fallback_analysis(alert)
        ELSE IF Raised(parsed) THEN _fallback_analysis(alert)
        ELSE parsed.returned

IsApproved(f) == "action" \in DOMAIN f /\ f.action = "approved"

IsRejected(f) == "action" \in DOMAIN f /\ f.action = "rejected"

(* q[-n:] *)
Last(q, n) == IF Len(q) <= n THEN q ELSE SubSeq(q, Len(q) - n + 1, Len(q))

RecentFeedback == 20

RecentPatterns == 5

(* one "  - Alert type: ..., Reason: ..." line of the context *)
pattern_line(entry) ==
    [alert_type |-> Get(entry, "alert_type", "unknown"),
     reason |-> Get(entry, "reason", "N/A")]

(* build_feedback_context: the context string, kept as the values its lines *)
(* are formatted from: the two counts of the summary line, then one line    *)
(* per recent approved entry and one per recent rejected entry, in the      *)
(* order of the history                                                     *)
build_feedback_context(fb) ==
    LET recent_feedback == Last(fb, RecentFeedback)
        approved == SelectSeq(recent_feedback, IsApproved)
        rejected == SelectSeq(recent_feedback, IsRejected)
        lines(q) == [i \in 1..Len(q) |-> pattern_line(q[i])]
    IN  IF fb = <<>> THEN [text |-> "No previous feedback available."]
        ELSE [summary |-> [approved |-> Len(approved),
                           rejected |-> Len(rejected)],
              approved_patterns |-> lines(Last(approved, RecentPatterns)),
              rejected_patterns |-> lines(Last(rejected, RecentPatterns))]

similar_feedback(alert, fb) ==
    SelectSeq(fb, LAMBDA f : "alert_type" \in DOMAIN f
                               /\ f.alert_type = alert.type)

adjusted_confidence_unhalved(original, approved_count, total) ==
    RoundDiv(original * total + 100 * approved_count, total)

(* round((original_confidence + approval_rate) / 2, 2), in hundredths *)
adjusted_confidence(original, approved_count, total) ==
    RoundDiv(original * total + 100 * approved_count, 2 * total)

adjust_confidence_with_feedback(alert, analysis, fb) ==
    LET similar == similar_feedback(alert, fb)
        approved_count ==
            Cardinality({i \in 1..Len(similar) : IsApproved(similar[i])})
        original == Get(analysis.dict, "confidence", Num(70))
    IN  IF fb = <<>> THEN Return(analysis)
        ELSE IF similar = <<>> THEN Return(analysis)
        ELSE IF ~IsDict(analysis) THEN Raise("AttributeError")
        ELSE IF ~IsNum(original) THEN Raise("TypeError")
        ELSE Return(Dict(SetKey(
                 SetKey(analysis.dict, "confidence",
                        Num(adjusted_confidence(original.num, approved_count,
                                                Len(similar)))),
                 "feedback_adjusted", Bool(TRUE))))

triaged_alert(alert, analysis) ==
    [alert_id |-> alert.id, ai_analysis |-> analysis, original_alert |-> alert]

(* ------------------------- AIAgent.triage_alerts ----------------------- *)

NoInput == None

(* a data directory: the records of its four files, and the names of the   *)
(* files that are absent or cannot be read                                  *)
EmptyDir ==
    [auth_events |-> <<>>, host_inventory |-> <<>>, firewall_logs |-> <<>>,
     splunk_events |-> <<>>, unreadable |-> {}]

(* the frames of a run before its files are loaded *)
NoFrames ==
    [auth_df |-> <<>>, host_df |-> <<>>, firewall_df |-> <<>>,
     splunk_events |-> <<>>]

(* no rule engine is run *)
NoDetection ==
    /\ data_dir = EmptyDir
    /\ program = "none"
    /\ det_pc = "idle"
    /\ self_alerts = <<>>
    /\ all_alerts = <<>>
    /\ loaded = NoFrames

(* a handler of the web application between two requests *)
Idle == [pc |-> "idle", data |-> None, number |-> 0, feedback |-> <<>>]

Handlers == {1, 2}

(* no request is served *)
NoWeb ==
    /\ handlers = [h \in Handlers |-> Idle]
    /\ responses = {}
    /\ received = 0
    /\ agent_pc = "idle"

Init ==
    /\ alerts_file \in {MissingFile}
           \cup {File(q) : q \in DistinctSeqsUpTo(AlertPool, MaxAlerts)}
    /\ feedback_file \in {MissingFile} \cup {File(h) : h \in Histories}
    /\ alerts = <<>>
    /\ feedback = <<>>
    /\ triaged_alerts = <<>>
    /\ llm_log = <<>>
    /\ pc = "start"
    /\ fn_alert = NoInput
    /\ fn_analysis = NoInput
    /\ fn_feedback = <<>>
    /\ fn_fallback = NoInput
    /\ fn_adjusted = NoInput
    /\ fn_context = NoInput
    /\ NoDetection
    /\ NoWeb

(* alerts = self.load_alerts(); feedback = self.load_feedback(); the early  *)
(* return on an empty alert list *)
LoadInputs ==
    /\ pc = "start"
    /\ alerts' = load_alerts(alerts_file)
    /\ feedback' = load_feedback(feedback_file)
    /\ feedback_file' = load_feedback_file(feedback_file)
    /\ pc' = IF load_alerts(alerts_file) = <<>> THEN "done" ELSE "loop"
    /\ UNCHANGED <<alerts_file, triaged_alerts, llm_log>>
    /\ UNCHANGED fn_vars
    /\ UNCHANGED det_vars
    /\ UNCHANGED web_vars

AnalyzeNext_feeding(outcome) ==
    /\ pc = "loop"
    /\ Len(triaged_alerts) < Len(alerts)
    /\ LET alert == alerts[Len(triaged_alerts) + 1]
           analysis == analyze_alert(alert, outcome)
           adjusted == adjust_confidence_with_feedback(alert, analysis,
                                                       feedback)
       IN  /\ llm_log' = Append(llm_log, outcome)
           /\ feedback' = Append(feedback, [alert_type |-> alert.type,
                                            action |-> "approved"])
           /\ IF Raised(adjusted)
              THEN /\ pc' = "raised"
                   /\ UNCHANGED triaged_alerts
              ELSE /\ pc' = pc
                   /\ triaged_alerts' =
                          Append(triaged_alerts,
                                 triaged_alert(alert, adjusted.returned))
    /\ UNCHANGED <<alerts_file, feedback_file, alerts>>
    /\ UNCHANGED fn_vars
    /\ UNCHANGED det_vars
    /\ UNCHANGED web_vars

AnalyzeNext_retrying(outcome) ==
    /\ pc = "loop"
    /\ Len(triaged_alerts) < Len(alerts)
    /\ LET alert == alerts[Len(triaged_alerts) + 1]
           analysis == analyze_alert(alert, outcome)
           adjusted == adjust_confidence_with_feedback(alert, analysis,
                                                       feedback)
       IN  /\ llm_log' = IF outcome.status = "ok"
                         THEN Append(llm_log, outcome)
                         ELSE llm_log \o <<outcome, outcome>>
           /\ IF Raised(adjusted)
              THEN /\ pc' = "raised"
                   /\ UNCHANGED triaged_alerts
              ELSE /\ pc' = pc
                   /\ triaged_alerts' =
                          Append(triaged_alerts,
                                 triaged_alert(alert, adjusted.returned))
    /\ UNCHANGED <<alerts_file, feedback_file, alerts, feedback>>
    /\ UNCHANGED fn_vars
    /\ UNCHANGED det_vars
    /\ UNCHANGED web_vars

(* one iteration of the loop over alerts: analyze_alert, then               *)
(* adjust_confidence_with_feedback, then the append; an exception that      *)
(* escapes ends triage_alerts without a result *)
AnalyzeNext(outcome) ==
    /\ pc = "loop"
    /\ Len(triaged_alerts) < Len(alerts)
    /\ LET alert == alerts[Len(triaged_alerts) + 1]
           analysis == analyze_alert(alert, outcome)
           adjusted == adjust_confidence_with_feedback(alert, analysis,
                                                       feedback)
       IN  /\ llm_log' = Append(llm_log, outcome)
           /\ IF Raised(adjusted)
              THEN /\ pc' = "raised"
                   /\ UNCHANGED triaged_alerts
              ELSE /\ pc' = pc
                   /\ triaged_alerts' =
                          Append(triaged_alerts,
                                 triaged_alert(alert, adjusted.returned))
    /\ UNCHANGED <<alerts_file, feedback_file, alerts, feedback>>
    /\ UNCHANGED fn_vars
    /\ UNCHANGED det_vars
    /\ UNCHANGED web_vars

ReturnTriaged ==
    /\ pc = "loop"
    /\ Len(triaged_alerts) = Len(alerts)
    /\ pc' = "done"
    /\ UNCHANGED <<alerts_file, feedback_file, alerts, feedback,
                   triaged_alerts, llm_log>>
    /\ UNCHANGED fn_vars
    /\ UNCHANGED det_vars
    /\ UNCHANGED web_vars

Next ==
    \/ LoadInputs
    \/ \E outcome \in LLMOutcomes : AnalyzeNext(outcome)
    \/ ReturnTriaged

Spec == Init /\ [][Next]_vars

(* triage runs over every batch, for a few feedback stores *)
BatchHistories ==
    { <<>>,
      <<[alert_type |-> "impossible_travel", action |-> "approved"]>>,
      <<[alert_type |-> "impossible_travel", action |-> "rejected"],
        [alert_type |-> "patch_drift", action |-> "approved"]>>,
      <<[alert_type |-> "patch_drift", action |-> "escalated"],
        [alert_type |-> "impossible_travel"]>> }

BatchInit ==
    /\ alerts_file \in {File(q) : q \in DistinctSeqsUpTo(AlertPool, MaxAlerts)}
    /\ feedback_file \in {MissingFile} \cup {File(h) : h \in BatchHistories}
    /\ alerts = <<>>
    /\ feedback = <<>>
    /\ triaged_alerts = <<>>
    /\ llm_log = <<>>
    /\ pc = "start"
    /\ fn_alert = NoInput
    /\ fn_analysis = NoInput
    /\ fn_feedback = <<>>
    /\ fn_fallback = NoInput
    /\ fn_adjusted = NoInput
    /\ fn_context = NoInput
    /\ NoDetection
    /\ NoWeb

SpecBatch == BatchInit /\ [][Next]_vars

(* ------------- the two pure helpers applied to drawn inputs ------------ *)

Severities == {"critical", "high", "medium", "low", "informational"}

FnAlerts ==
    { [id |-> "a", type |-> t, severity |-> sv, description |-> "d",
       suggested_actions |-> Actions(n)] :
          t \in AlertTypes, sv \in Severities, n \in {0, 3, MaxActions} }
    \cup { [id |-> "a", type |-> t, description |-> "d",
            suggested_actions |-> Actions(n)] :
               t \in AlertTypes, n \in {0, 3, MaxActions} }

Confidences == {0, 60, 90, 100}

FnAnalyses ==
    { Dict([risk_score |-> Num(7), confidence |-> Num(c),
            feedback_adjusted |-> Bool(FALSE)]) : c \in Confidences }
    \cup { NoConfidenceObject, TextConfidenceObject, List(<<>>) }

FnInit ==
    /\ fn_alert \in FnAlerts
    /\ fn_analysis \in FnAnalyses
    /\ fn_feedback \in Histories
    /\ fn_fallback = NoInput
    /\ fn_adjusted = NoInput
    /\ fn_context = NoInput
    /\ NoDetection
    /\ NoWeb
    /\ alerts_file = MissingFile
    /\ feedback_file = MissingFile
    /\ alerts = <<>>
    /\ feedback = <<>>
    /\ triaged_alerts = <<>>
    /\ llm_log = <<>>
    /\ pc = "fn"

CallFallback ==
    /\ fn_fallback = NoInput
    /\ fn_fallback' = _fallback_analysis(fn_alert)
    /\ UNCHANGED <<fn_alert, fn_analysis, fn_feedback, fn_adjusted,
                   fn_context>>
    /\ UNCHANGED run_vars
    /\ UNCHANGED det_vars
    /\ UNCHANGED web_vars

CallAdjust ==
    /\ fn_adjusted = NoInput
    /\ fn_adjusted' =
           adjust_confidence_with_feedback(fn_alert, fn_analysis, fn_feedback)
    /\ UNCHANGED <<fn_alert, fn_analysis, fn_feedback, fn_fallback,
                   fn_context>>
    /\ UNCHANGED run_vars
    /\ UNCHANGED det_vars
    /\ UNCHANGED web_vars

CallContext ==
    /\ fn_context = NoInput
    /\ fn_context' = build_feedback_context(fn_feedback)
    /\ UNCHANGED <<fn_alert, fn_analysis, fn_feedback, fn_fallback,
                   fn_adjusted>>
    /\ UNCHANGED run_vars
    /\ UNCHANGED det_vars
    /\ UNCHANGED web_vars

FnNext == CallFallback \/ CallAdjust \/ CallContext

SpecFn == FnInit /\ [][FnNext]_vars

(* ---------------------- the data the rule engines read ---------------- *)

MaxAuth == 3

MaxHosts == 2

MaxRecords == 4

MaxEvents == 2

(* the cities of the model lie on one great circle, at these miles from the *)
(* first; geodesic(coord1, coord2).miles is then the difference of the two  *)
(* positions, 0 for one city                                                *)
Position ==
    [houston |-> 0, austin |-> 50, denver |-> 500, chicago |-> 1000,
     tokyo |-> 8000]

(* a row of auth_events.csv whose lat and lon cells are filled; the rows of *)
(* the city "nowhere" have them empty                                       *)
HasCoordinates(event) == event.city \in DOMAIN Position

geodesic_miles(city1, city2) ==
    IF Position[city1] >= Position[city2]
    THEN Position[city1] - Position[city2]
    ELSE Position[city2] - Position[city1]

UserRank == [alice |-> 1, bob |-> 2]

HostRank == [h1 |-> 1, h2 |-> 2]

(* rows of auth_events.csv: timestamp in minutes; success tells whether the *)
(* authentication succeeded, a column neither engine reads                  *)
AuthEvent(user, timestamp, city, success) ==
    [user |-> user, timestamp |-> timestamp, city |-> city,
     success |-> success, source_ip |-> "ip-" \o city]

AuthPool ==
    { AuthEvent("alice", 0, "houston", TRUE),
      AuthEvent("alice", 0, "chicago", TRUE),
      AuthEvent("alice", 15, "tokyo", TRUE),
      AuthEvent("alice", 60, "denver", TRUE),
      AuthEvent("alice", 60, "chicago", TRUE),
      AuthEvent("alice", 60, "tokyo", FALSE),
      AuthEvent("alice", 120, "austin", TRUE),
      AuthEvent("bob", 30, "tokyo", TRUE),
      AuthEvent("alice", 30, "nowhere", TRUE) }

(* rows of host_inventory.csv: age_hours is the time from last_patch_date   *)
(* to the moment of the run                                                 *)
Host(hostname, age_hours, criticality) ==
    [hostname |-> hostname, age_hours |-> age_hours,
     criticality |-> criticality, last_patch_date |-> "date"]

(* a row whose last_patch_date cell is empty ("missing") or holds text that *)
(* is no date ("unparsable")                                                *)
HostUndated(hostname, last_patch_date, criticality) ==
    [hostname |-> hostname, age_hours |-> 0,
     criticality |-> criticality, last_patch_date |-> last_patch_date]

HostPool ==
    { Host("h1", 10 * 24, "critical"),
      Host("h1", 30 * 24, "low"),
      Host("h1", 30 * 24 + 5, "high"),
      Host("h2", 40 * 24, "critical"),
      Host("h2", 40 * 24 + 5, "low"),
      Host("h1", 60 * 24 + 5, "critical"),
      Host("h2", 65 * 24, "critical"),
      Host("h1", 65 * 24, "low"),
      Host("h2", 95 * 24, "critical"),
      HostUndated("h1", "missing", "critical"),
      HostUndated("h1", "unparsable", "critical") }

(* rows of firewall_logs.csv *)
FirewallLog(host, port, action, source_ip) ==
    [host |-> host, port |-> port, action |-> action, source_ip |-> source_ip]

FirewallPool ==
    { FirewallLog("h1", 3389, "ALLOW", "s1"),
      FirewallLog("h1", 3389, "ALLOW", "s2"),
      FirewallLog("h2", 3389, "DENY", "s1"),
      FirewallLog("h2", 23, "ALLOW", "s1"),
      FirewallLog("h1", 22, "ALLOW", "s2"),
      FirewallLog("h1", 8080, "ALLOW", "s1"),
      FirewallLog("h2", 25, "ALLOW", "s2") }

(* entries of splunk_events.json; an entry may lack the severity or carry   *)
(* one outside the four levels; a failed_login entry may carry the count of *)
(* failures its sender has aggregated and the minutes they span             *)
SplunkPool ==
    { [event_type |-> "failed_login", severity |-> "high", source |-> "h1"],
      [event_type |-> "privilege_escalation", severity |-> "critical",
       source |-> "h2"],
      [event_type |-> "config_change", source |-> "h1"],
      [event_type |-> "dns_tunnel", severity |-> "info", source |-> "h2"],
      [severity |-> "low", source |-> "h1"],
      [event_type |-> "failed_login", severity |-> "high", source |-> "h2",
       count |-> 2, window_minutes |-> 5],
      [event_type |-> "failed_login", severity |-> "high", source |-> "h2",
       count |-> 6, window_minutes |-> 30],
      [event_type |-> "failed_login", severity |-> "high", source |-> "h2",
       count |-> 7, window_minutes |-> 5] }

Sources ==
    {"auth_events", "host_inventory", "firewall_logs", "splunk_events",
     "vuln_scan"}

(* a data directory whose four sources each hold records that raise an      *)
(* alert in both engines                                                    *)
FullDir ==
    [auth_events |-> <<AuthEvent("alice", 0, "houston", TRUE),
                       AuthEvent("alice", 15, "tokyo", TRUE)>>,
     host_inventory |-> <<Host("h2", 65 * 24, "critical")>>,
     firewall_logs |-> <<FirewallLog("h2", 23, "ALLOW", "s1")>>,
     splunk_events |-> <<[event_type |-> "failed_login",
                          severity |-> "high", source |-> "h1"]>>,
     unreadable |-> {}]

(* dir with the file of one source absent or unreadable *)
Without(dir, source) ==
    [f \in DOMAIN dir |->
        IF f = source THEN <<>>
        ELSE IF f = "unreadable" THEN dir.unreadable \cup {source}
        ELSE dir[f]]

(* the full directory, whole or with one file absent or unreadable *)
FaultyDirs == {FullDir} \cup {Without(FullDir, source) : source \in Sources}

(* a data directory with one populated source, the others without records, *)
(* or one of the directories above                                          *)
DataDirs ==
    FaultyDirs \cup
    { [EmptyDir EXCEPT !.auth_events = q] : q \in SeqsUpTo(AuthPool, MaxAuth) }
    \cup { [EmptyDir EXCEPT !.host_inventory = q] :
               q \in SeqsUpTo(HostPool, MaxHosts) }
    \cup { [EmptyDir EXCEPT !.firewall_logs = q] :
               q \in SeqsUpTo(FirewallPool, MaxRecords) }
    \cup { [EmptyDir EXCEPT !.splunk_events = q] :
               q \in SeqsUpTo(SplunkPool, MaxEvents) }

(* --------------------- what both engines compute ----------------------- *)

Indices(n) == [i \in 1..n |-> i]

(* the order of sort_values(['user', 'timestamp']) *)
AuthBefore(a, b) ==
    \/ UserRank[a.user] < UserRank[b.user]
    \/ a.user = b.user /\ a.timestamp < b.timestamp

(* the row numbers of q in sorted order; rows with equal keys keep their    *)
(* order                                                                    *)
RECURSIVE sorted_rows(_, _)
sorted_rows(q, rest) ==
    IF rest = {} THEN <<>>
    ELSE LET first == CHOOSE i \in rest :
                          \A j \in rest \ {i} :
                              \/ AuthBefore(q[i], q[j])
                              \/ ~AuthBefore(q[j], q[i]) /\ i < j
         IN  <<first>> \o sorted_rows(q, rest \ {first})

sort_values(q) ==
    LET rows == sorted_rows(q, 1..Len(q))
    IN  [k \in 1..Len(q) |-> q[rows[k]]]

time_diff_skewed(prev, curr) == curr.timestamp - prev.timestamp + 1

(* time_diff, in minutes *)
time_diff(prev, curr) == curr.timestamp - prev.timestamp

(* distance_miles / time_diff > mph, time_diff in hours *)
SpeedExceeds(prev, curr, mph) ==
    geodesic_miles(prev.city, curr.city) * 60 > mph * time_diff(prev, curr)

(* round(speed_mph, 2), in hundredths *)
speed_mph(prev, curr) ==
    RoundDiv(geodesic_miles(prev.city, curr.city) * 6000,
             time_diff(prev, curr))

(* the cell of a column that the model does not vary, for the row of key *)
cell(column, key) == column \o " of " \o key

(* (current_time - host['last_patch_date']).days *)
days_since_patch(host) == host.age_hours \div 24

(* pd.to_datetime turns an empty cell into NaT; a difference with NaT is    *)
(* NaT, its .days is nan, and every comparison with NaT or nan is false     *)
IsNaT(host) == host.last_patch_date = "missing"

(* pd.to_datetime raises on a column holding text that is no date *)
to_datetime_raises(host_inventory) ==
    \E i \in 1..Len(host_inventory) :
        host_inventory[i].last_patch_date = "unparsable"

(* -------------------- DetectionEngine (rules/detect.py) ---------------- *)

(* the loaders: read the file and parse its dates inside one try, and       *)
(* return an empty frame on any exception                                   *)
load_auth_events(dir) ==
    IF "auth_events" \in dir.unreadable THEN <<>> ELSE dir.auth_events

load_host_inventory(dir) ==
    IF \/ "host_inventory" \in dir.unreadable
       \/ to_datetime_raises(dir.host_inventory)
    THEN <<>> ELSE dir.host_inventory

load_firewall_logs(dir) ==
    IF "firewall_logs" \in dir.unreadable THEN <<>> ELSE dir.firewall_logs

load_splunk_events(dir) ==
    IF "splunk_events" \in dir.unreadable THEN <<>> ELSE dir.splunk_events

authorized_ports == {22, 80, 443, 3389}

impossible_travel_mph == 500

critical_travel_mph == 1000

patch_drift_critical_days == 60

patch_drift_high_days == 30

(* set by __init__ and read by no method *)
failed_login_threshold == 5

failed_login_window_minutes == 10

risky_ports == {23, 5900, 8080, 8888, 9999}

travel_actions(user, ip) ==
    <<"Immediately contact " \o user \o " to verify recent login activity",
      "Reset user credentials and force password change",
      "Block suspicious IP address: " \o ip,
      "Review all recent activity from this account",
      "Enable MFA if not already active">>

travel_alert(curr_event, next_event) ==
    [type |-> "impossible_travel",
     severity |-> IF SpeedExceeds(curr_event, next_event, critical_travel_mph)
                  THEN "critical" ELSE "high",
     description |-> "Impossible travel detected for " \o curr_event.user,
     evidence |-> [user |-> curr_event.user,
                   location1 |-> curr_event.city,
                   location2 |-> next_event.city,
                   timestamp1 |-> curr_event.timestamp,
                   timestamp2 |-> next_event.timestamp,
                   distance_miles |->
                       geodesic_miles(curr_event.city, next_event.city),
                   time_hours |->
                       RoundDiv(time_diff(curr_event, next_event) * 100, 60),
                   speed_mph |-> speed_mph(curr_event, next_event),
                   ip1 |-> curr_event.source_ip,
                   ip2 |-> next_event.source_ip],
     suggested_actions |->
         travel_actions(curr_event.user, next_event.source_ip)]

(* the alerts DetectionEngine.detect_impossible_travel appends: one per     *)
(* pair of neighbours of one user in the sorted frame whose time_diff is    *)
(* positive and whose speed exceeds the threshold; a pair with a row        *)
(* without coordinates is left out, by the ValueError of geodesic that the  *)
(* try around the pair catches, or by the nan it returns                    *)
DetectionEngine_detect_impossible_travel(auth_df) ==
    LET events == sort_values(auth_df)
        flagged(i) ==
            /\ events[i].user = events[i + 1].user
            /\ HasCoordinates(events[i])
            /\ HasCoordinates(events[i + 1])
            /\ time_diff(events[i], events[i + 1]) > 0
            /\ SpeedExceeds(events[i], events[i + 1], impossible_travel_mph)
        pairs == IF auth_df = <<>> THEN <<>>
                 ELSE SelectSeq(Indices(Len(events) - 1), flagged)
    IN  [k \in 1..Len(pairs) |->
            travel_alert(events[pairs[k]], events[pairs[k] + 1])]

patch_actions(hostname) ==
    <<"Schedule emergency patching for " \o hostname,
      "Verify system availability for maintenance window",
      "Review change management process for critical infrastructure",
      "Isolate " \o hostname \o " if patch cannot be applied immediately",
      "Document exception if patching not feasible">>

patch_alert_bare(host) ==
    [type |-> "patch_drift",
     severity |-> IF days_since_patch(host) > patch_drift_critical_days
                  THEN "critical" ELSE "high",
     description |-> "Critical patch drift detected on " \o host.hostname,
     evidence |-> [hostname |-> host.hostname,
                   days_since_patch |-> days_since_patch(host)],
     suggested_actions |-> patch_actions(host.hostname)]

patch_alert(host) ==
    [type |-> "patch_drift",
     severity |-> IF days_since_patch(host) > patch_drift_critical_days
                  THEN "critical" ELSE "high",
     description |-> "Critical patch drift detected on " \o host.hostname,
     evidence |-> [hostname |-> host.hostname,
                   ip |-> cell("ip", host.hostname),
                   os |-> cell("os", host.hostname),
                   last_patch_date |-> host.age_hours,
                   days_since_patch |-> days_since_patch(host),
                   critical_apps |-> cell("critical_apps", host.hostname),
                   location |-> cell("location", host.hostname)],
     suggested_actions |-> patch_actions(host.hostname)]

DetectionEngine_detect_patch_drift(host_df) ==
    LET drifted(host) ==
            /\ ~IsNaT(host)
            /\ days_since_patch(host) > patch_drift_high_days
        hosts == SelectSeq(host_df, drifted)
    IN  [k \in 1..Len(hosts) |-> patch_alert(hosts[k])]

IsAllow_any(log) == log.action \in {"ALLOW", "DENY"}

IsAllow(log) == log.action = "ALLOW"

(* the order of the groups of groupby(['hostname', 'dest_port']) *)
PairBefore(a, b) ==
    \/ HostRank[a[1]] < HostRank[b[1]]
    \/ a[1] = b[1] /\ a[2] < b[2]

RECURSIVE sorted_pairs(_)
sorted_pairs(S) ==
    IF S = {} THEN <<>>
    ELSE LET first == CHOOSE a \in S : \A b \in S \ {a} : PairBefore(a, b)
         IN  <<first>> \o sorted_pairs(S \ {first})

(* the frame port_summary: one row per (hostname, dest_port) of the allowed *)
(* rows, in the order of the keys, with the source_ip of the first row of   *)
(* the group                                                                *)
port_summary(allowed) ==
    LET groups == sorted_pairs({<<allowed[i].host, allowed[i].port>> :
                                    i \in 1..Len(allowed)})
        first_row(g) ==
            allowed[CHOOSE i \in 1..Len(allowed) :
                        /\ <<allowed[i].host, allowed[i].port>> = g
                        /\ \A j \in 1..(i - 1) :
                               <<allowed[j].host, allowed[j].port>> # g]
    IN  [k \in 1..Len(groups) |->
            [hostname |-> groups[k][1], dest_port |-> groups[k][2],
             source_ip |-> first_row(groups[k]).source_ip]]

port_actions ==
    <<"Investigate why the port is open on the host",
      "Verify if service on this port is required for operations",
      "Block the port at firewall if unauthorized",
      "Review firewall rules for compliance with security policy",
      "Check for backdoors or unauthorized services">>

port_alert(entry) ==
    [type |-> "open_port",
     severity |-> IF entry.dest_port \in risky_ports THEN "high"
                  ELSE "medium",
     description |-> "Unauthorized port open on " \o entry.hostname,
     evidence |-> [hostname |-> entry.hostname, port |-> entry.dest_port,
                   source_ip |-> entry.source_ip,
                   last_seen |-> cell("timestamp", entry.source_ip),
                   authorized_ports |-> authorized_ports],
     suggested_actions |-> port_actions]

DetectionEngine_detect_open_ports(firewall_df) ==
    LET unauthorized(entry) == entry.dest_port \notin authorized_ports
        entries == SelectSeq(port_summary(SelectSeq(firewall_df, IsAllow)),
                             unauthorized)
    IN  [k \in 1..Len(entries) |-> port_alert(entries[k])]

(* the number of actions _get_splunk_actions returns *)
_get_splunk_actions(event_type) ==
    IF event_type \in {"failed_login", "privilege_escalation",
                       "unusual_process", "data_exfiltration",
                       "config_change", "ransomware_indicator",
                       "backup_deletion"}
    THEN Actions(5)
    ELSE Actions(3)

splunk_alert_unmapped(event) ==
    LET event_type == Get(event, "event_type", "unknown")
        severity == Get(event, "severity", "medium")
    IN  [type |-> "splunk_anomaly",
         severity |-> severity,
         description |-> "Splunk alert: Security event detected",
         evidence |-> [event_type |-> event_type,
                       source |-> Get(event, "source", None)],
         suggested_actions |-> _get_splunk_actions(event_type)]

(* the keys of an event that the evidence takes over as they are *)
other_keys(event) ==
    DOMAIN event \ {"event_id", "event_type", "source", "timestamp", "user",
                    "details", "severity"}

splunk_alert(event) ==
    LET event_type == Get(event, "event_type", "unknown")
        severity == Get(event, "severity", "medium")
    IN  [type |-> "splunk_anomaly",
         severity |-> IF severity \in {"critical", "high", "medium"}
                      THEN severity ELSE "low",
         description |-> "Splunk alert: Security event detected",
         evidence |-> [event_type |-> event_type,
                       source |-> Get(event, "source", None)]
                      @@ [k \in other_keys(event) |-> event[k]],
         suggested_actions |-> _get_splunk_actions(event_type)]

DetectionEngine_detect_splunk_anomalies(splunk_events) ==
    [k \in 1..Len(splunk_events) |-> splunk_alert(splunk_events[k])]

(* ------------------------- rules/rules_engine.py ----------------------- *)

IMPOSSIBLE_TRAVEL_SPEED_MPH == 500

PATCH_DRIFT_DAYS == 30

ALLOWED_PORTS == {22, 80, 443, 53, 5432, 3306, 445}

dangerous_ports == {23, 21, 3389, 1433}

rules_travel_alert(prev, curr) ==
    [type |-> "impossible_travel",
     severity |-> "HIGH",
     user |-> curr.user,
     description |-> "User '" \o curr.user \o "' traveled",
     evidence |-> [previous_location |-> prev.city,
                   previous_ip |-> prev.source_ip,
                   previous_time |-> prev.timestamp,
                   current_location |-> curr.city,
                   current_ip |-> curr.source_ip,
                   current_time |-> curr.timestamp,
                   distance_miles |-> geodesic_miles(prev.city, curr.city),
                   speed_mph |-> speed_mph(prev, curr)],
     suggested_actions |-> Actions(3)]

(* geodesic is given a pair of neighbours of one user of which one has no  *)
(* coordinates                                                              *)
geodesic_undefined(auth_events) ==
    LET events == sort_values(auth_events)
    IN  \E i \in 2..Len(events) :
            /\ events[i - 1].user = events[i].user
            /\ ~(HasCoordinates(events[i - 1]) /\ HasCoordinates(events[i]))

(* the alerts of detect_impossible_travel when geodesic raises for no pair: *)
(* a distance of nan makes speed_mph > IMPOSSIBLE_TRAVEL_SPEED_MPH false    *)
rules_engine_detect_impossible_travel(auth_events) ==
    LET events == sort_values(auth_events)
        flagged(i) ==
            /\ events[i - 1].user = events[i].user
            /\ HasCoordinates(events[i - 1])
            /\ HasCoordinates(events[i])
            /\ time_diff(events[i - 1], events[i]) > 0
            /\ SpeedExceeds(events[i - 1], events[i],
                            IMPOSSIBLE_TRAVEL_SPEED_MPH)
        pairs == IF auth_events = <<>> THEN <<>>
                 ELSE SelectSeq(Tail(Indices(Len(events))), flagged)
    IN  [k \in 1..Len(pairs) |->
            rules_travel_alert(events[pairs[k] - 1], events[pairs[k]])]

rules_critical_days == 90

rules_medium_days == 60

rules_patch_alert(host) ==
    [type |-> "patch_drift",
     severity |->
         IF /\ host.criticality = "critical"
            /\ days_since_patch(host) > rules_critical_days
         THEN "CRITICAL"
         ELSE IF host.criticality \in {"high", "critical"} THEN "HIGH"
         ELSE IF days_since_patch(host) > rules_medium_days THEN "MEDIUM"
         ELSE "LOW",
     host |-> host.hostname,
     description |-> "Host '" \o host.hostname \o "' has not been patched",
     evidence |-> [hostname |-> host.hostname,
                   ip_address |-> cell("ip_address", host.hostname),
                   os |-> cell("os", host.hostname),
                   last_patch_date |-> host.age_hours,
                   days_since_patch |-> days_since_patch(host),
                   criticality |-> host.criticality,
                   installed_apps |-> cell("installed_apps", host.hostname)],
     suggested_actions |-> Actions(3)]

(* load_data reads auth_events.csv, host_inventory.csv, vuln_scan.json and  *)
(* firewall_logs.csv and parses the dates with no exception handler         *)
load_data_raises(dir) ==
    \/ dir.unreadable \cap {"auth_events", "host_inventory", "vuln_scan",
                            "firewall_logs"} # {}
    \/ to_datetime_raises(dir.host_inventory)

load_data(dir) ==
    [auth_df |-> dir.auth_events, host_df |-> dir.host_inventory,
     firewall_df |-> dir.firewall_logs, splunk_events |-> <<>>]

(* host['last_patch_date'] < current_date - timedelta(days=PATCH_DRIFT_DAYS) *)
rules_engine_detect_patch_drift(host_inventory) ==
    LET outdated(host) ==
            /\ ~IsNaT(host)
            /\ host.age_hours > PATCH_DRIFT_DAYS * 24
        hosts == SelectSeq(host_inventory, outdated)
    IN  [k \in 1..Len(hosts) |-> rules_patch_alert(hosts[k])]

rules_port_alert(log) ==
    [type |-> "open_port_anomaly",
     severity |-> IF log.port \in dangerous_ports THEN "HIGH" ELSE "MEDIUM",
     host |-> log.host,
     description |-> "Suspicious traffic allowed on " \o log.host,
     evidence |-> [source_ip |-> log.source_ip,
                   destination_ip |-> log.host,
                   destination_port |-> log.port,
                   protocol |-> cell("protocol", log.source_ip),
                   bytes |-> cell("bytes", log.source_ip),
                   timestamp |-> cell("timestamp", log.source_ip)],
     suggested_actions |-> Actions(3)]

rules_engine_detect_open_port_anomalies_repeating(firewall_logs) ==
    LET suspicious(log) == log.port \notin ALLOWED_PORTS
        logs == SelectSeq(SelectSeq(firewall_logs, IsAllow), suspicious)
    IN  [k \in 1..Len(logs) |-> rules_port_alert(logs[k])]

(* the alerts of the allowed rows to ports outside ALLOWED_PORTS, then the  *)
(* removal of every alert whose (host, port) an earlier alert has           *)
rules_engine_detect_open_port_anomalies(firewall_logs) ==
    LET suspicious(log) == log.port \notin ALLOWED_PORTS
        logs == SelectSeq(SelectSeq(firewall_logs, IsAllow), suspicious)
        alerts_ == [k \in 1..Len(logs) |-> rules_port_alert(logs[k])]
        key(alert) == <<alert.host, alert.evidence.destination_port>>
        unseen(i) == \A j \in 1..(i - 1) : key(alerts_[j]) # key(alerts_[i])
        unique == SelectSeq(Indices(Len(alerts_)), unseen)
    IN  [k \in 1..Len(unique) |-> alerts_[unique[k]]]

(* ------------- the two engines run over a data directory --------------- *)

DetectInit ==
    /\ data_dir \in DataDirs
    /\ program \in {"detect", "rules_engine"}
    /\ det_pc = "load"
    /\ self_alerts = <<>>
    /\ all_alerts = <<>>
    /\ loaded = NoFrames
    /\ alerts_file = MissingFile
    /\ feedback_file = MissingFile
    /\ alerts = <<>>
    /\ feedback = <<>>
    /\ triaged_alerts = <<>>
    /\ llm_log = <<>>
    /\ pc = "rules"
    /\ fn_alert = NoInput
    /\ fn_analysis = NoInput
    /\ fn_feedback = <<>>
    /\ fn_fallback = NoInput
    /\ fn_adjusted = NoInput
    /\ fn_context = NoInput
    /\ NoWeb

(* DetectionEngine.run_all_detections loads the four sources, each loader   *)
(* answering an exception with an empty frame                               *)
LoadSources ==
    /\ program = "detect"
    /\ det_pc = "load"
    /\ loaded' = [auth_df |-> load_auth_events(data_dir),
                  host_df |-> load_host_inventory(data_dir),
                  firewall_df |-> load_firewall_logs(data_dir),
                  splunk_events |-> load_splunk_events(data_dir)]
    /\ det_pc' = "impossible_travel"
    /\ UNCHANGED <<data_dir, program, self_alerts, all_alerts>>
    /\ UNCHANGED run_vars
    /\ UNCHANGED fn_vars
    /\ UNCHANGED web_vars

(* main of rules_engine.py calls load_data first; an exception of load_data *)
(* ends the program before any detector runs                                *)
RulesLoadData ==
    /\ program = "rules_engine"
    /\ det_pc = "load"
    /\ IF load_data_raises(data_dir)
       THEN /\ det_pc' = "raised"
            /\ loaded' = loaded
       ELSE /\ det_pc' = "impossible_travel"
            /\ loaded' = load_data(data_dir)
    /\ UNCHANGED <<data_dir, program, self_alerts, all_alerts>>
    /\ UNCHANGED run_vars
    /\ UNCHANGED fn_vars
    /\ UNCHANGED web_vars

(* then one detector after the other, each appending to self.alerts         *)
DetectImpossibleTravel ==
    /\ program = "detect"
    /\ det_pc = "impossible_travel"
    /\ self_alerts' = self_alerts
           \o DetectionEngine_detect_impossible_travel(loaded.auth_df)
    /\ det_pc' = "patch_drift"
    /\ UNCHANGED <<data_dir, program, all_alerts, loaded>>
    /\ UNCHANGED run_vars
    /\ UNCHANGED fn_vars
    /\ UNCHANGED web_vars

DetectPatchDrift ==
    /\ program = "detect"
    /\ det_pc = "patch_drift"
    /\ self_alerts' = self_alerts
           \o DetectionEngine_detect_patch_drift(loaded.host_df)
    /\ det_pc' = "open_ports"
    /\ UNCHANGED <<data_dir, program, all_alerts, loaded>>
    /\ UNCHANGED run_vars
    /\ UNCHANGED fn_vars
    /\ UNCHANGED web_vars

DetectOpenPorts ==
    /\ program = "detect"
    /\ det_pc = "open_ports"
    /\ self_alerts' = self_alerts
           \o DetectionEngine_detect_open_ports(loaded.firewall_df)
    /\ det_pc' = "splunk_anomalies"
    /\ UNCHANGED <<data_dir, program, all_alerts, loaded>>
    /\ UNCHANGED run_vars
    /\ UNCHANGED fn_vars
    /\ UNCHANGED web_vars

DetectSplunkAnomalies ==
    /\ program = "detect"
    /\ det_pc = "splunk_anomalies"
    /\ self_alerts' = self_alerts
           \o DetectionEngine_detect_splunk_anomalies(loaded.splunk_events)
    /\ det_pc' = "done"
    /\ UNCHANGED <<data_dir, program, all_alerts, loaded>>
    /\ UNCHANGED run_vars
    /\ UNCHANGED fn_vars
    /\ UNCHANGED web_vars

(* main of rules_engine.py: the three detectors, their alerts concatenated  *)
(* geodesic over a row without coordinates raises ValueError in geopy 2     *)
(* and returns nan in geopy 1; the loop of detect_impossible_travel has no  *)
(* exception handler, so the ValueError ends the program                    *)
RulesImpossibleTravel ==
    /\ program = "rules_engine"
    /\ det_pc = "impossible_travel"
    /\ \/ /\ all_alerts' = all_alerts
                  \o rules_engine_detect_impossible_travel(loaded.auth_df)
          /\ det_pc' = "patch_drift"
       \/ /\ geodesic_undefined(loaded.auth_df)
          /\ all_alerts' = all_alerts
          /\ det_pc' = "raised"
    /\ UNCHANGED <<data_dir, program, self_alerts, loaded>>
    /\ UNCHANGED run_vars
    /\ UNCHANGED fn_vars
    /\ UNCHANGED web_vars

RulesPatchDrift ==
    /\ program = "rules_engine"
    /\ det_pc = "patch_drift"
    /\ all_alerts' = all_alerts
           \o rules_engine_detect_patch_drift(loaded.host_df)
    /\ det_pc' = "open_ports"
    /\ UNCHANGED <<data_dir, program, self_alerts, loaded>>
    /\ UNCHANGED run_vars
    /\ UNCHANGED fn_vars
    /\ UNCHANGED web_vars

RulesOpenPorts ==
    /\ program = "rules_engine"
    /\ det_pc = "open_ports"
    /\ all_alerts' = all_alerts
           \o rules_engine_detect_open_port_anomalies(loaded.firewall_df)
    /\ det_pc' = "done"
    /\ UNCHANGED <<data_dir, program, self_alerts, loaded>>
    /\ UNCHANGED run_vars
    /\ UNCHANGED fn_vars
    /\ UNCHANGED web_vars

DetectNext ==
    \/ LoadSources
    \/ RulesLoadData
    \/ DetectImpossibleTravel
    \/ DetectPatchDrift
    \/ DetectOpenPorts
    \/ DetectSplunkAnomalies
    \/ RulesImpossibleTravel
    \/ RulesPatchDrift
    \/ RulesOpenPorts

SpecDetect == DetectInit /\ [][DetectNext]_vars

(* ---------------------- web/app.py: POST /feedback --------------------- *)

(* the requests of a behaviour *)
MaxSubmissions == 2

(* str.strip() on the reasons of the model *)
strip(reason) ==
    CASE reason = "  " -> ""
      [] reason = " late " -> "late"
      [] OTHER -> reason

(* what request.json yields: None for a request without a body, else the    *)
(* object of the body                                                       *)
RequestPool ==
    { None,
      [action |-> "approved", reason |-> "ok"],
      [alert_id |-> "a1", action |-> "escalated", reason |-> "ok"],
      [alert_id |-> "a1", action |-> "approved"],
      [alert_id |-> "a1", action |-> "approved", reason |-> "  "],
      [alert_id |-> "a1", action |-> "approved", reason |-> " late "],
      [alert_id |-> "a2", action |-> "rejected", reason |-> "dup",
       alert_type |-> "patch_drift", analyst |-> "eve"] }

(* triage.json, where submit_feedback looks the alert type up *)
TriageFile ==
    <<[alert_id |-> "a1", original_alert |-> [type |-> "impossible_travel"]]>>

(* feedback.json that exists with a size of 0, as open(filepath, 'w')       *)
(* leaves it until json.dump writes                                         *)
TruncatedFile == [exists |-> TRUE, data |-> <<>>, text |-> "empty"]

(* feedback.json holding text that is no JSON *)
UnparsableFile == [exists |-> TRUE, data |-> <<>>, text |-> "invalid"]

IsParsable(file) == file.exists /\ "text" \notin DOMAIN file

(* an entry recorded before the behaviour starts *)
OldEntry ==
    [alert_id |-> "a0", action |-> "approved", reason |-> "seen",
     alert_type |-> "patch_drift", timestamp |-> 0, analyst |-> "anonymous"]

WebStores ==
    {MissingFile, UnparsableFile, File(<<>>), File(<<OldEntry>>)}

(* load_json_file(filepath, default): the default for a file that is        *)
(* missing after the wait, empty or no JSON                                 *)
load_json_file(file, default) ==
    IF IsParsable(file) THEN file.data ELSE default

(* the checks of submit_feedback that answer 400 *)
rejects(data) ==
    \/ data = None
    \/ DOMAIN data = {}
    \/ "alert_id" \notin DOMAIN data
    \/ Get(data, "action", "none") \notin {"approved", "rejected"}
    \/ strip(Get(data, "reason", "")) = ""

(* data.get('alert_type'), else the type of the triaged alert of that id,   *)
(* else 'unknown'                                                           *)
alert_type_of(data) ==
    IF "alert_type" \in DOMAIN data THEN data.alert_type
    ELSE IF \E i \in 1..Len(TriageFile) :
                TriageFile[i].alert_id = data.alert_id
         THEN LET i == CHOOSE i \in 1..Len(TriageFile) :
                           TriageFile[i].alert_id = data.alert_id
              IN  TriageFile[i].original_alert.type
         ELSE "unknown"

(* feedback_entry; the timestamp of the request numbered number *)
feedback_entry(data, number) ==
    [alert_id |-> data.alert_id, action |-> data.action,
     reason |-> strip(data.reason), alert_type |-> alert_type_of(data),
     timestamp |-> number, analyst |-> Get(data, "analyst", "anonymous")]

Response(number, data, status) ==
    [number |-> number, data |-> data, status |-> status]

WebInit ==
    /\ feedback_file \in WebStores
    /\ handlers = [h \in Handlers |-> Idle]
    /\ responses = {}
    /\ received = 0
    /\ agent_pc = "idle"
    /\ alerts_file = MissingFile
    /\ alerts = <<>>
    /\ feedback = <<>>
    /\ triaged_alerts = <<>>
    /\ llm_log = <<>>
    /\ pc = "web"
    /\ fn_alert = NoInput
    /\ fn_analysis = NoInput
    /\ fn_feedback = <<>>
    /\ fn_fallback = NoInput
    /\ fn_adjusted = NoInput
    /\ fn_context = NoInput
    /\ NoDetection

(* submit_feedback up to the load of the store.  request.json of a request  *)
(* without a body is None with a content type other than JSON in Flask      *)
(* before 2.1 and raises otherwise; the except Exception of the view        *)
(* answers what it raises with 500                                          *)
ReceiveFeedback(h, data) ==
    /\ handlers[h].pc = "idle"
    /\ received < MaxSubmissions
    /\ received' = received + 1
    /\ IF data = None
       THEN /\ \E status \in {400, 500} :
                   responses' = responses
                       \cup {Response(received + 1, data, status)}
            /\ UNCHANGED handlers
       ELSE IF rejects(data)
       THEN /\ responses' = responses
                    \cup {Response(received + 1, data, 400)}
            /\ UNCHANGED handlers
       ELSE /\ handlers' = [handlers EXCEPT ![h] =
                               [pc |-> "load", data |-> data,
                                number |-> received + 1, feedback |-> <<>>]]
            /\ UNCHANGED responses
    /\ UNCHANGED <<feedback_file, feedback, agent_pc>>
    /\ UNCHANGED <<alerts_file, alerts, triaged_alerts, llm_log, pc>>
    /\ UNCHANGED fn_vars
    /\ UNCHANGED det_vars

(* feedback = load_json_file(FEEDBACK_FILE, []), then the append *)
LoadAndAppend(h) ==
    /\ handlers[h].pc = "load"
    /\ handlers' = [handlers EXCEPT
           ![h].feedback =
               Append(load_json_file(feedback_file, <<>>),
                      feedback_entry(handlers[h].data, handlers[h].number)),
           ![h].pc = "save"]
    /\ UNCHANGED <<feedback_file, feedback, responses, received, agent_pc>>
    /\ UNCHANGED <<alerts_file, alerts, triaged_alerts, llm_log, pc>>
    /\ UNCHANGED fn_vars
    /\ UNCHANGED det_vars

(* save_json_file: open(filepath, 'w') empties the file *)
SaveOpen(h) ==
    /\ handlers[h].pc = "save"
    /\ feedback_file' = TruncatedFile
    /\ handlers' = [handlers EXCEPT ![h].pc = "dump"]
    /\ UNCHANGED <<feedback, responses, received, agent_pc>>
    /\ UNCHANGED <<alerts_file, alerts, triaged_alerts, llm_log, pc>>
    /\ UNCHANGED fn_vars
    /\ UNCHANGED det_vars

(* save_json_file: json.dump writes the list; the view answers success *)
SaveDump(h) ==
    /\ handlers[h].pc = "dump"
    /\ feedback_file' = File(handlers[h].feedback)
    /\ responses' = responses
           \cup {Response(handlers[h].number, handlers[h].data, 200)}
    /\ handlers' = [handlers EXCEPT ![h] = Idle]
    /\ UNCHANGED <<feedback, received, agent_pc>>
    /\ UNCHANGED <<alerts_file, alerts, triaged_alerts, llm_log, pc>>
    /\ UNCHANGED fn_vars
    /\ UNCHANGED det_vars

(* AIAgent.load_feedback of an agent run: the test os.path.exists *)
AgentLoadFeedback ==
    /\ agent_pc = "idle"
    /\ agent_pc' = IF feedback_file.exists THEN "read" ELSE "create"
    /\ UNCHANGED <<feedback_file, feedback, handlers, responses, received>>
    /\ UNCHANGED <<alerts_file, alerts, triaged_alerts, llm_log, pc>>
    /\ UNCHANGED fn_vars
    /\ UNCHANGED det_vars

(* the file was missing: it is opened for writing and [] is dumped *)
AgentCreate ==
    /\ agent_pc = "create"
    /\ feedback_file' = File(<<>>)
    /\ feedback' = <<>>
    /\ agent_pc' = "idle"
    /\ UNCHANGED <<handlers, responses, received>>
    /\ UNCHANGED <<alerts_file, alerts, triaged_alerts, llm_log, pc>>
    /\ UNCHANGED fn_vars
    /\ UNCHANGED det_vars

(* the file was there: json.load, every exception answered with [] *)
AgentRead ==
    /\ agent_pc = "read"
    /\ feedback' = load_json_file(feedback_file, <<>>)
    /\ agent_pc' = "idle"
    /\ UNCHANGED <<feedback_file, handlers, responses, received>>
    /\ UNCHANGED <<alerts_file, alerts, triaged_alerts, llm_log, pc>>
    /\ UNCHANGED fn_vars
    /\ UNCHANGED det_vars

WebNext ==
    \/ \E h \in Handlers, data \in RequestPool : ReceiveFeedback(h, data)
    \/ \E h \in Handlers : LoadAndAppend(h)
    \/ \E h \in Handlers : SaveOpen(h)
    \/ \E h \in Handlers : SaveDump(h)
    \/ AgentLoadFeedback
    \/ AgentCreate
    \/ AgentRead

SpecWeb == WebInit /\ [][WebNext]_vars

(* the requests and the agent loads of SpecWeb, one after the other: a      *)
(* request or a load starts when nothing else is under way                  *)
SerialNext ==
    /\ WebNext
    /\ \A h \in Handlers :
           handlers[h].pc = "idle" /\ handlers'[h].pc # "idle" =>
               /\ agent_pc = "idle"
               /\ \A g \in Handlers \ {h} : handlers[g].pc = "idle"
    /\ agent_pc = "idle" /\ agent_pc' # "idle" =>
           \A h \in Handlers : handlers[h].pc = "idle"

SpecWebSerial == WebInit /\ [][SerialNext]_vars

(* ------------------------------ properties ----------------------------- *)

OfType(f, t) == "alert_type" \in DOMAIN f /\ f.alert_type = t

HasAction(f, a) == "action" \in DOMAIN f /\ f.action = a

Approvals(fb, t) ==
    Cardinality({i \in 1..Len(fb) : OfType(fb[i], t) /\ HasAction(fb[i], "approved")})

Rejections(fb, t) ==
    Cardinality({i \in 1..Len(fb) : OfType(fb[i], t) /\ HasAction(fb[i], "rejected")})

Entries(fb, t) == Cardinality({i \in 1..Len(fb) : OfType(fb[i], t)})

InputAlerts == load_alerts(alerts_file)

Records == 1..Len(triaged_alerts)

HasNumber(an, k) ==
    /\ IsDict(an)
    /\ k \in DOMAIN an.dict
    /\ IsNum(an.dict[k])

HasConfidence(o) ==
    /\ DOMAIN o = {"returned"}
    /\ HasNumber(o.returned, "confidence")

ConfidenceOf(o) == o.returned.dict.confidence.num

Min(a, b) == IF a < b THEN a ELSE b

(* C1: whatever the provider does, a triage run ends without raising and    *)
(* returns exactly one record per input alert, in input order, carrying     *)
(* that alert's id and the alert itself.                                    *)
C1_OneRecordPerAlert ==
    /\ pc # "raised"
    /\ pc = "done" =>
           /\ Len(triaged_alerts) = Len(InputAlerts)
           /\ \A i \in Records :
                  /\ triaged_alerts[i].alert_id = InputAlerts[i].id
                  /\ triaged_alerts[i].original_alert = InputAlerts[i]

(* a failed provider call: timeout or error status, a broken envelope, empty *)
(* content, content that is not JSON, or JSON that is not the object asked  *)
(* for                                                                      *)
ProviderFailed(outcome) ==
    \/ outcome.status # "ok"
    \/ outcome.content = EmptyContent
    \/ Raised(json_loads(strip_fence(outcome.content)))
    \/ ~IsDict(json_loads(strip_fence(outcome.content)).returned)

(* C2: once a provider call of the run has failed (timeout, error status,   *)
(* malformed or empty response) no alert of the batch fails, and            *)
(* the record of the failed alert carries the baseline risk score of its    *)
(* severity, a summary built from its description, and the confidence and   *)
(* flag computed from the feedback of its type.                             *)
C2_FailureFallsBack ==
    (\E k \in 1..Len(llm_log) : ProviderFailed(llm_log[k])) =>
        /\ pc # "raised"
        /\ \A i \in 1..Len(llm_log) :
               ProviderFailed(llm_log[i]) =>
                   LET alert == alerts[i]
                       an == triaged_alerts[i].ai_analysis
                       n == Entries(feedback, alert.type)
                   IN  /\ IsDict(an)
                       /\ an.dict.risk_score =
                              Num(Get(severity_scores,
                                      Get(alert, "severity", "medium"), 5))
                       /\ an.dict.threat_analysis =
                              Str("Alert type: " \o alert.type \o ". "
                                  \o alert.description)
                       /\ an.dict.feedback_adjusted = Bool(n > 0)
                       /\ an.dict.confidence =
                              IF n = 0 THEN Num(60)
                              ELSE Num(RoundDiv(
                                       60 * n + 100 * Approvals(feedback,
                                                                alert.type),
                                       2 * n))

(* C3: the confidence of every triage record lies in [0.05, 0.99] (stated   *)
(* on the records whose analysis carries a numeric confidence).             *)
C3_ConfidenceInRange ==
    \A i \in Records :
        LET an == triaged_alerts[i].ai_analysis
        IN  HasNumber(an, "confidence") =>
                /\ an.dict.confidence.num >= 5
                /\ an.dict.confidence.num <= 99

(* C4: feedback_adjusted of every triage record is true exactly when the    *)
(* history holds an approved or rejected entry for the alert's type (stated *)
(* on the records whose analysis is an object carrying the flag).           *)
C4_FlagIffFeedback ==
    \A i \in Records :
        LET an == triaged_alerts[i].ai_analysis
            t == triaged_alerts[i].original_alert.type
        IN  (IsDict(an) /\ "feedback_adjusted" \in DOMAIN an.dict) =>
                an.dict.feedback_adjusted =
                    Bool(Approvals(feedback, t) + Rejections(feedback, t) > 0)

(* C8: every triage record carries an integer risk score in 1..10, the      *)
(* baseline of the alert's severity when the provider's structured answer   *)
(* had none or a non-numeric one (stated on the records whose analysis is   *)
(* an object).                                                              *)
C8_RiskScoreInRange ==
    \A i \in Records :
        LET an == triaged_alerts[i].ai_analysis
            alert == triaged_alerts[i].original_alert
            parsed == analyze_alert(alert, llm_log[i])
        IN  IsDict(an) =>
                /\ HasNumber(an, "risk_score")
                /\ an.dict.risk_score.num \in 1..10
                /\ ~HasNumber(parsed, "risk_score") =>
                       an.dict.risk_score =
                           Num(Get(severity_scores,
                                   Get(alert, "severity", "medium"), 5))

(* C9: the remediation steps of every triage record are a list of at most   *)
(* 3 items (stated on the records whose analysis is an object carrying      *)
(* remediation steps).                                                      *)
C9_AtMostThreeSteps ==
    \A i \in Records :
        LET an == triaged_alerts[i].ai_analysis
        IN  (IsDict(an) /\ "remediation_steps" \in DOMAIN an.dict) =>
                /\ DOMAIN an.dict.remediation_steps = {"list"}
                /\ Len(an.dict.remediation_steps.list) <= 3

FnBase == Get(fn_analysis.dict, "confidence", Num(70))

FnType == fn_alert.type

(* the cases in which adjust_confidence_with_feedback computes a new value  *)
FnAdjusts ==
    /\ fn_adjusted # NoInput
    /\ IsDict(fn_analysis)
    /\ IsNum(FnBase)
    /\ Entries(fn_feedback, FnType) > 0

C6_Monotonic ==
    HasConfidence(fn_adjusted) =>
        \A h \in Histories :
            LET fewer == adjust_confidence_with_feedback(fn_alert,
                                                         fn_analysis, h)
            IN  HasConfidence(fewer) =>
                    /\ ( /\ Rejections(h, FnType) = 0
                         /\ Rejections(fn_feedback, FnType) = 0
                         /\ Approvals(h, FnType)
                                < Approvals(fn_feedback, FnType) )
                       => ConfidenceOf(fn_adjusted) >= ConfidenceOf(fewer)
                    /\ ( /\ Approvals(h, FnType) = 0
                         /\ Approvals(fn_feedback, FnType) = 0
                         /\ Rejections(h, FnType)
                                < Rejections(fn_feedback, FnType) )
                       => ConfidenceOf(fn_adjusted) <= ConfidenceOf(fewer)

FnSeverity == Get(fn_alert, "severity", "missing")

FnBaseline ==
    <<fn_fallback.dict.risk_score.num, fn_fallback.dict.confidence.num>>

(* C7 as the spec states it: the baseline pair is critical (9, 0.80),       *)
(* high (8, 0.70), medium (6, 0.60), low (4, 0.50).                         *)
C7_SpecTable ==
    fn_fallback # NoInput =>
        /\ FnSeverity = "critical" => FnBaseline = <<9, 80>>
        /\ FnSeverity = "high" => FnBaseline = <<8, 70>>
        /\ FnSeverity = "medium" => FnBaseline = <<6, 60>>
        /\ FnSeverity = "low" => FnBaseline = <<4, 50>>

(* C7 amended: the baseline pair of the fallback analysis is critical       *)
(* (9, 0.60), high (7, 0.60), medium (5, 0.60), low (3, 0.60), and          *)
(* (5, 0.60) for a severity string outside the table or a missing severity. *)
C7_BaselineTable ==
    fn_fallback # NoInput =>
        /\ FnSeverity = "critical" => FnBaseline = <<9, 60>>
        /\ FnSeverity = "high" => FnBaseline = <<7, 60>>
        /\ FnSeverity = "medium" => FnBaseline = <<5, 60>>
        /\ FnSeverity = "low" => FnBaseline = <<3, 60>>
        /\ FnSeverity \notin {"critical", "high", "medium", "low"} =>
               FnBaseline = <<5, 60>>

C7_Witness ==
    /\ fn_fallback # NoInput
    /\ FnSeverity = "high"
    /\ FnBaseline = <<7, 60>>

Recognized(f) == HasAction(f, "approved") \/ HasAction(f, "rejected")

(* C10: entries whose action is missing or is neither approved nor rejected *)
(* change nothing: the adjusted analysis is the one the history without     *)
(* them yields.                                                             *)
C10_UnrecognizedIgnored ==
    (fn_adjusted # NoInput /\ IsDict(fn_analysis) /\ IsNum(FnBase)) =>
        fn_adjusted =
            adjust_confidence_with_feedback(
                fn_alert, fn_analysis, SelectSeq(fn_feedback, Recognized))

(* the histories that hold the same entries as q in another order *)
Reorderings(q) ==
    {[i \in 1..Len(q) |-> q[p[i]]] : p \in Permutations(1..Len(q))}

(* C11: every reordering of the feedback history yields the same approval   *)
(* and rejection counts per alert type, the same feedback context for the   *)
(* provider and the same adjusted analysis as the history itself.           *)
C11_OrderIndependent ==
    fn_context # NoInput =>
        \A h \in Reorderings(fn_feedback) :
            /\ \A t \in AlertTypes :
                   /\ Approvals(h, t) = Approvals(fn_feedback, t)
                   /\ Rejections(h, t) = Rejections(fn_feedback, t)
            /\ adjust_confidence_with_feedback(fn_alert, fn_analysis, h)
                   = adjust_confidence_with_feedback(fn_alert, fn_analysis,
                                                     fn_feedback)
            /\ build_feedback_context(h) = fn_context

(* C19: a triage run leaves the feedback store as it found it: no step of   *)
(* the run creates the store or changes its contents, also when the store   *)
(* does not exist at the start.                                             *)
C19_FeedbackStoreUntouched == [][feedback_file' = feedback_file]_vars

(* the history the run reads at its start *)
HistoryRead == load_feedback(feedback_file)

(* the record of a batch that holds this alert alone, for the same provider *)
(* response and the same history                                            *)
RecordAlone(alert, outcome) ==
    LET adjusted == adjust_confidence_with_feedback(
                        alert, analyze_alert(alert, outcome), HistoryRead)
    IN  IF Raised(adjusted) THEN adjusted
        ELSE Return(triaged_alert(alert, adjusted.returned))

EmittedAlerts == IF program = "detect" THEN self_alerts ELSE all_alerts

IsTravelAlert(alert) == alert.type = "impossible_travel"

IsPatchAlert(alert) == alert.type = "patch_drift"

IsPortAlert(alert) == alert.type \in {"open_port", "open_port_anomaly"}

(* the two endpoints of a travel alert, as (user, minute, city) each *)
Endpoints(alert) ==
    IF program = "detect"
    THEN <<alert.evidence.user,
           alert.evidence.timestamp1, alert.evidence.location1,
           alert.evidence.timestamp2, alert.evidence.location2>>
    ELSE <<alert.user,
           alert.evidence.previous_time, alert.evidence.previous_location,
           alert.evidence.current_time, alert.evidence.current_location>>

(* the consecutive pairs of one principal, by ascending time, that the      *)
(* rule flags: positive elapsed time and speed above mph                    *)
FlaggedPairs(auth, mph) ==
    LET events == sort_values(auth)
        flagged(i) ==
            /\ i < Len(events)
            /\ events[i].user = events[i + 1].user
            /\ HasCoordinates(events[i])
            /\ HasCoordinates(events[i + 1])
            /\ time_diff(events[i], events[i + 1]) > 0
            /\ SpeedExceeds(events[i], events[i + 1], mph)
        pairs == SelectSeq(Indices(Len(events)), flagged)
    IN  [k \in 1..Len(pairs) |-> <<events[pairs[k]], events[pairs[k] + 1]>>]

(* distance / elapsed hours >= mph *)
SpeedAtLeast(prev, curr, mph) ==
    geodesic_miles(prev.city, curr.city) * 60 >= mph * time_diff(prev, curr)

TravelRan == det_pc \notin {"load", "raised", "impossible_travel"}

(* C12: the travel alerts are, in order, the consecutive pairs of one       *)
(* principal whose speed exceeds 500 mph, each with severity critical when  *)
(* the speed is at least 1000 mph (twice the threshold, 1000 itself         *)
(* included) and high otherwise; a pair at or below 500 mph has no alert.   *)
C12_SpeedThreshold ==
    TravelRan =>
        LET expected == FlaggedPairs(data_dir.auth_events, 500)
            emitted == SelectSeq(EmittedAlerts, IsTravelAlert)
        IN  /\ Len(emitted) = Len(expected)
            /\ \A k \in 1..Len(emitted) :
                   LET prev == expected[k][1]
                       curr == expected[k][2]
                   IN  /\ Endpoints(emitted[k]) =
                              <<prev.user, prev.timestamp, prev.city,
                                curr.timestamp, curr.city>>
                       /\ emitted[k].severity =
                              IF SpeedAtLeast(prev, curr, 2 * 500)
                              THEN "critical" ELSE "high"

SuccessfulOnly(auth) == SelectSeq(auth, LAMBDA e : e.success)

(* C13: the travel alerts are those of the successful authentications       *)
(* alone: a failed attempt is no endpoint of a flagged pair and does not    *)
(* separate two successful events of one principal.                         *)
C13_OnlySuccessful ==
    TravelRan =>
        SelectSeq(EmittedAlerts, IsTravelAlert) =
            IF program = "detect"
            THEN DetectionEngine_detect_impossible_travel(
                     SuccessfulOnly(data_dir.auth_events))
            ELSE rules_engine_detect_impossible_travel(
                     SuccessfulOnly(data_dir.auth_events))

PatchRan ==
    det_pc \notin {"load", "raised", "impossible_travel", "patch_drift"}

(* C14: the patch alerts are, in order, the hosts with more than 30 days    *)
(* since the last patch, critical above 60 days and high otherwise,         *)
(* whatever the criticality tag; 30 days or fewer give no alert.            *)
C14_PatchThresholds ==
    PatchRan =>
        LET drifted(host) == days_since_patch(host) > 30
            expected == SelectSeq(data_dir.host_inventory, drifted)
            emitted == SelectSeq(EmittedAlerts, IsPatchAlert)
        IN  /\ Len(emitted) = Len(expected)
            /\ \A k \in 1..Len(emitted) :
                   /\ emitted[k].evidence.hostname = expected[k].hostname
                   /\ emitted[k].evidence.days_since_patch =
                          days_since_patch(expected[k])
                   /\ emitted[k].severity =
                          IF days_since_patch(expected[k]) > 60
                          THEN "critical" ELSE "high"

PortsRan ==
    det_pc \notin {"load", "raised", "impossible_travel", "patch_drift",
                 "open_ports"}

(* the whitelist of the engine of the state *)
Whitelist == IF program = "detect" THEN authorized_ports ELSE ALLOWED_PORTS

(* the (destination host, destination port) of a port alert *)
HostPort(alert) ==
    IF program = "detect"
    THEN <<alert.evidence.hostname, alert.evidence.port>>
    ELSE <<alert.host, alert.evidence.destination_port>>

PortAlerts == SelectSeq(EmittedAlerts, IsPortAlert)

(* the alerts emitted for one (host, port) *)
AlertsFor(pair) ==
    {k \in 1..Len(PortAlerts) : HostPort(PortAlerts[k]) = pair}

Allowed(pair) ==
    \E i \in 1..Len(data_dir.firewall_logs) :
        /\ data_dir.firewall_logs[i].action = "ALLOW"
        /\ data_dir.firewall_logs[i].host = pair[1]
        /\ data_dir.firewall_logs[i].port = pair[2]

(* C15: every port alert is for a (host, port) that has a record with       *)
(* action ALLOW and whose port is outside the whitelist of the engine: a    *)
(* denied record produces no alert, nor does an allowed record to a         *)
(* whitelisted port.                                                        *)
C15_AllowedAndUnlisted ==
    PortsRan =>
        \A k \in 1..Len(PortAlerts) :
            /\ Allowed(HostPort(PortAlerts[k]))
            /\ HostPort(PortAlerts[k])[2] \notin Whitelist

C15_Witness ==
    /\ PortsRan
    /\ Len(PortAlerts) = 1
    /\ \E i, j \in 1..Len(data_dir.firewall_logs) :
           /\ data_dir.firewall_logs[i].action = "DENY"
           /\ data_dir.firewall_logs[j].action = "ALLOW"
           /\ data_dir.firewall_logs[j].port \in Whitelist

(* C16: a host with an allowed connection to port 3389 gets exactly one     *)
(* alert for that port, of severity high, however many records name the     *)
(* pair.                                                                    *)
C16_OneHighFor3389 ==
    PortsRan =>
        \A h \in DOMAIN HostRank :
            Allowed(<<h, 3389>>) =>
                /\ Cardinality(AlertsFor(<<h, 3389>>)) = 1
                /\ \A k \in AlertsFor(<<h, 3389>>) :
                       PortAlerts[k].severity = "high"

(* the (host, port) pairs of the records *)
PairsSeen ==
    {<<data_dir.firewall_logs[i].host, data_dir.firewall_logs[i].port>> :
         i \in 1..Len(data_dir.firewall_logs)}

(* C17: no two port alerts of a run share host and port, and every allowed  *)
(* pair whose port is outside the whitelist has exactly one alert.          *)
C17_OneAlertPerPair ==
    PortsRan =>
        /\ \A k, l \in 1..Len(PortAlerts) :
               HostPort(PortAlerts[k]) = HostPort(PortAlerts[l]) => k = l
        /\ \A pair \in PairsSeen :
               (Allowed(pair) /\ pair[2] \notin Whitelist) =>
                   Cardinality(AlertsFor(pair)) = 1

C17_Witness ==
    /\ PortsRan
    /\ Len(data_dir.firewall_logs) = MaxRecords
    /\ Len(PortAlerts) = 2
    /\ \E i, j \in 1..Len(data_dir.firewall_logs) :
           /\ i # j
           /\ data_dir.firewall_logs[i] = data_dir.firewall_logs[j]
           /\ Cardinality(AlertsFor(<<data_dir.firewall_logs[i].host,
                                      data_dir.firewall_logs[i].port>>)) = 1

(* C18 as the spec states it: every alert of every detector has a type in   *)
(* {impossible_travel, patch_drift, open_port, generic_anomaly} and a       *)
(* severity in {low, medium, high, critical}.                               *)
C18_SpecEnums ==
    \A k \in 1..Len(EmittedAlerts) :
        /\ EmittedAlerts[k].type \in
               {"impossible_travel", "patch_drift", "open_port",
                "generic_anomaly"}
        /\ EmittedAlerts[k].severity \in {"low", "medium", "high", "critical"}

(* C18 amended: every alert of DetectionEngine has a type in                *)
(* {impossible_travel, patch_drift, open_port, splunk_anomaly} and a        *)
(* severity in {low, medium, high, critical}; every alert of                *)
(* rules_engine.py has a type in {impossible_travel, patch_drift,           *)
(* open_port_anomaly} and a severity in {LOW, MEDIUM, HIGH, CRITICAL}.      *)
C18_EngineEnums ==
    /\ \A k \in 1..Len(self_alerts) :
           /\ self_alerts[k].type \in
                  {"impossible_travel", "patch_drift", "open_port",
                   "splunk_anomaly"}
           /\ self_alerts[k].severity \in {"low", "medium", "high", "critical"}
    /\ \A k \in 1..Len(all_alerts) :
           /\ all_alerts[k].type \in
                  {"impossible_travel", "patch_drift", "open_port_anomaly"}
           /\ all_alerts[k].severity \in {"LOW", "MEDIUM", "HIGH", "CRITICAL"}

C18_Witness ==
    /\ program = "detect"
    /\ det_pc = "done"
    /\ \E k \in 1..Len(self_alerts) :
           /\ self_alerts[k].type = "splunk_anomaly"
           /\ self_alerts[k].severity = "low"
           /\ Get(data_dir.splunk_events[k], "severity", "medium") = "info"

(* ------------------- absent sources and bad records -------------------- *)

(* the four event sources *)
EventSources ==
    {"auth_events", "host_inventory", "firewall_logs", "splunk_events"}

(* what the detectors of the engine of the state emit over the records of  *)
(* dir, one detector after the other                                       *)
DetectorsOver(dir) ==
    IF program = "detect"
    THEN DetectionEngine_detect_impossible_travel(dir.auth_events)
         \o DetectionEngine_detect_patch_drift(dir.host_inventory)
         \o DetectionEngine_detect_open_ports(dir.firewall_logs)
         \o DetectionEngine_detect_splunk_anomalies(dir.splunk_events)
    ELSE rules_engine_detect_impossible_travel(dir.auth_events)
         \o rules_engine_detect_patch_drift(dir.host_inventory)
         \o rules_engine_detect_open_port_anomalies(dir.firewall_logs)

(* C21: when the file of an event source is absent or unreadable the run    *)
(* does not fail, and it ends with the alerts of the detectors over the     *)
(* remaining sources, the absent source counting as empty.                  *)
C21_AbsentSourceTolerated ==
    data_dir.unreadable \cap EventSources # {} =>
        /\ det_pc # "raised"
        /\ det_pc = "done" => EmittedAlerts = DetectorsOver(data_dir)

(* the same for the engine of rules/detect.py alone *)
C21_DetectTolerates ==
    program = "detect" => C21_AbsentSourceTolerated

(* the run has ended, with its alerts or with an exception *)
RunEnded == det_pc \in {"done", "raised"}

(* a host row with a last-patch date *)
Dated(host) == host.last_patch_date = "date"

(* an entry of splunk_events.json with its type and its severity *)
Complete(event) == {"event_type", "severity"} \subseteq DOMAIN event

(* dir without its records with a missing or partial field *)
WellFormed(dir) ==
    [dir EXCEPT !.auth_events = SelectSeq(@, HasCoordinates),
                !.host_inventory = SelectSeq(@, Dated),
                !.splunk_events = SelectSeq(@, Complete)]

(* C22: a record with a missing or partial field is skipped and aborts no   *)
(* batch: the run over readable files ends with the alerts of the           *)
(* detectors over the well-formed records of each input.                    *)
C22_BadRecordSkipped ==
    data_dir.unreadable = {} /\ RunEnded =>
        EmittedAlerts = DetectorsOver(WellFormed(data_dir))

(* the same for the host inventory alone *)
C22_InventoryBatchKept ==
    data_dir.unreadable = {} /\ RunEnded =>
        SelectSeq(EmittedAlerts, IsPatchAlert) =
            SelectSeq(DetectorsOver(WellFormed(data_dir)), IsPatchAlert)

(* the patch alerts of the engine of the state over an inventory *)
PatchAlertsOver(host_inventory) ==
    IF program = "detect"
    THEN DetectionEngine_detect_patch_drift(host_inventory)
    ELSE rules_engine_detect_patch_drift(host_inventory)

(* C24: a host whose last-patch date is missing or unparsable yields no     *)
(* alert, and the other hosts of the inventory are still evaluated: the     *)
(* patch alerts of the run are those of the hosts that have a date.         *)
C24_UndatedHostSkipped ==
    /\ data_dir.unreadable = {}
    /\ RunEnded
    /\ \E i \in 1..Len(data_dir.host_inventory) :
           ~Dated(data_dir.host_inventory[i])
    => SelectSeq(EmittedAlerts, IsPatchAlert) =
           PatchAlertsOver(SelectSeq(data_dir.host_inventory, Dated))

(* the same for a date that is missing, none unparsable *)
C24_MissingDateSkipped ==
    ~to_datetime_raises(data_dir.host_inventory) => C24_UndatedHostSkipped

(* ------------------------ zero elapsed time ---------------------------- *)

(* the sorted frame holds two neighbours of one user, both with             *)
(* coordinates, in different cities at the same minute                      *)
ZeroElapsedPair(auth_df) ==
    LET events == sort_values(auth_df)
    IN  \E i \in 2..Len(events) :
            /\ events[i - 1].user = events[i].user
            /\ events[i - 1].timestamp = events[i].timestamp
            /\ events[i - 1].city # events[i].city
            /\ HasCoordinates(events[i - 1])
            /\ HasCoordinates(events[i])

(* C23: no travel alert is for a pair whose elapsed time is zero or         *)
(* negative, and a run whose events all have coordinates does not end with  *)
(* an exception over such a pair.                                           *)
C23_NoAlertWithoutElapsedTime ==
    /\ \A k \in 1..Len(EmittedAlerts) :
           IsTravelAlert(EmittedAlerts[k]) =>
               Endpoints(EmittedAlerts[k])[2] < Endpoints(EmittedAlerts[k])[4]
    /\ /\ ZeroElapsedPair(loaded.auth_df)
       /\ ~geodesic_undefined(loaded.auth_df)
       => det_pc # "raised"

(* the travel detector has run over a frame with a zero-elapsed pair in     *)
(* different cities and has flagged another pair of the frame               *)
C23_Witness ==
    /\ TravelRan
    /\ ZeroElapsedPair(loaded.auth_df)
    /\ \E k \in 1..Len(EmittedAlerts) : IsTravelAlert(EmittedAlerts[k])

(* ----------------------- severity of a port alert ---------------------- *)

(* the destination port of a port alert *)
AlertPort(alert) ==
    IF program = "detect" THEN alert.evidence.port
    ELSE alert.evidence.destination_port

(* the high-risk ports of the engine of the state *)
HighRiskPorts == IF program = "detect" THEN risky_ports ELSE dangerous_ports

(* C25: the alert for an allowed connection to a port off the whitelist is  *)
(* high when the port is below 1024 or in the high-risk set of the engine,  *)
(* and medium otherwise (in either letter case).                            *)
C25_PrivilegedOrRiskyIsHigh ==
    \A k \in 1..Len(EmittedAlerts) :
        IsPortAlert(EmittedAlerts[k]) =>
            IF \/ AlertPort(EmittedAlerts[k]) < 1024
               \/ AlertPort(EmittedAlerts[k]) \in HighRiskPorts
            THEN EmittedAlerts[k].severity \in {"high", "HIGH"}
            ELSE EmittedAlerts[k].severity \in {"medium", "MEDIUM"}

(* the same with the high-risk set alone *)
C25_RiskyIsHigh ==
    \A k \in 1..Len(EmittedAlerts) :
        IsPortAlert(EmittedAlerts[k]) =>
            IF AlertPort(EmittedAlerts[k]) \in HighRiskPorts
            THEN EmittedAlerts[k].severity \in {"high", "HIGH"}
            ELSE EmittedAlerts[k].severity \in {"medium", "MEDIUM"}

(* -------------------------- count-based events ------------------------- *)

IsFailedLoginAlert(alert) ==
    /\ alert.type = "splunk_anomaly"
    /\ alert.evidence.event_type = "failed_login"

(* C26: an alert for a failed_login event is emitted only when the count    *)
(* the event carries is at least 5 and its window is at most 10 minutes.    *)
C26_CountAndWindowMet ==
    \A k \in 1..Len(EmittedAlerts) :
        IsFailedLoginAlert(EmittedAlerts[k]) =>
            /\ "count" \in DOMAIN EmittedAlerts[k].evidence
            /\ EmittedAlerts[k].evidence.count >= 5
            /\ "window_minutes" \in DOMAIN EmittedAlerts[k].evidence
            /\ EmittedAlerts[k].evidence.window_minutes <= 10

(* ------------------------- evidence of an alert ------------------------ *)

(* what a key of an evidence dictionary tells *)
FieldOf ==
    [user |-> "principal", location1 |-> "location", location2 |-> "location",
     timestamp1 |-> "timestamp", timestamp2 |-> "timestamp",
     distance_miles |-> "distance", time_hours |-> "elapsed",
     speed_mph |-> "speed", ip1 |-> "address", ip2 |-> "address",
     previous_location |-> "location", current_location |-> "location",
     previous_ip |-> "address", current_ip |-> "address",
     previous_time |-> "timestamp", current_time |-> "timestamp",
     hostname |-> "hostname", ip |-> "address", ip_address |-> "address",
     os |-> "os", last_patch_date |-> "last_patch_date",
     days_since_patch |-> "days", critical_apps |-> "applications",
     installed_apps |-> "applications", location |-> "location",
     criticality |-> "criticality", port |-> "port", source_ip |-> "source",
     last_seen |-> "timestamp", authorized_ports |-> "whitelist",
     destination_ip |-> "destination", destination_port |-> "port",
     protocol |-> "protocol", bytes |-> "bytes", timestamp |-> "timestamp"]

(* the fields the evidence of an alert tells *)
Fields(alert) == {FieldOf[k] : k \in DOMAIN alert.evidence}

(* C27: a travel alert carries timestamps, locations, coordinates, distance *)
(* and speed; a patch alert hostname, last-patch date, days elapsed and     *)
(* criticality; a port alert source, destination, port, protocol and        *)
(* hostname.                                                                *)
C27_PromisedEvidence ==
    \A k \in 1..Len(EmittedAlerts) :
        LET alert == EmittedAlerts[k]
        IN  /\ IsTravelAlert(alert) =>
                   {"timestamp", "location", "coordinates", "distance",
                    "speed"} \subseteq Fields(alert)
            /\ IsPatchAlert(alert) =>
                   {"hostname", "last_patch_date", "days", "criticality"}
                       \subseteq Fields(alert)
            /\ IsPortAlert(alert) =>
                   {"source", "destination", "port", "protocol", "hostname"}
                       \subseteq Fields(alert)

(* the keys of the evidence of each engine, by alert type *)
EvidenceKeys ==
    IF program = "detect"
    THEN [impossible_travel |->
              {"user", "location1", "location2", "timestamp1", "timestamp2",
               "distance_miles", "time_hours", "speed_mph", "ip1", "ip2"},
          patch_drift |->
              {"hostname", "ip", "os", "last_patch_date", "days_since_patch",
               "critical_apps", "location"},
          open_port |->
              {"hostname", "port", "source_ip", "last_seen",
               "authorized_ports"}]
    ELSE [impossible_travel |->
              {"previous_location", "previous_ip", "previous_time",
               "current_location", "current_ip", "current_time",
               "distance_miles", "speed_mph"},
          patch_drift |->
              {"hostname", "ip_address", "os", "last_patch_date",
               "days_since_patch", "criticality", "installed_apps"},
          open_port_anomaly |->
              {"source_ip", "destination_ip", "destination_port", "protocol",
               "bytes", "timestamp"}]

(* C27, amended: the evidence of a travel, patch or port alert has exactly  *)
(* the keys of its engine and type: no coordinates in a travel alert, the   *)
(* criticality in the patch alerts of rules_engine.py alone, protocol and   *)
(* destination in the port alerts of rules_engine.py alone, the hostname in *)
(* those of detect.py alone.                                                *)
C27_EngineEvidence ==
    \A k \in 1..Len(EmittedAlerts) :
        LET alert == EmittedAlerts[k]
        IN  IsTravelAlert(alert) \/ IsPatchAlert(alert) \/ IsPortAlert(alert)
                => DOMAIN alert.evidence = EvidenceKeys[alert.type]

(* a finished run that has emitted a travel, a patch and a port alert *)
C27_Witness ==
    /\ det_pc = "done"
    /\ \E k \in 1..Len(EmittedAlerts) : IsTravelAlert(EmittedAlerts[k])
    /\ \E k \in 1..Len(EmittedAlerts) : IsPatchAlert(EmittedAlerts[k])
    /\ \E k \in 1..Len(EmittedAlerts) : IsPortAlert(EmittedAlerts[k])

(* ------------------- calls of the narrative provider ------------------- *)

(* the provider calls made so far are one per alert taken up: the triaged   *)
(* alerts, and the alert whose iteration ended with an exception            *)
OneCallPerAlert ==
    Len(llm_log) = Len(triaged_alerts) + (IF pc = "raised" THEN 1 ELSE 0)

(* the analysis the engine keeps for alert after a call that failed *)
FallbackFor(alert) ==
    adjust_confidence_with_feedback(alert, _fallback_analysis(alert),
                                    feedback)

(* C28: the provider is invoked at most once per alert of a run: a step     *)
(* makes at most one call, the calls stay one per alert taken up, and after *)
(* a failed call the step ends with the fallback analysis of that alert.    *)
C28_AtMostOneCallPerAlert ==
    [][ /\ Len(llm_log') <= Len(llm_log) + 1
        /\ OneCallPerAlert'
        /\ /\ Len(llm_log') = Len(llm_log) + 1
           /\ llm_log'[Len(llm_log')].status # "ok"
           /\ pc' # "raised"
           => /\ Len(triaged_alerts') = Len(triaged_alerts) + 1
              /\ triaged_alerts'[Len(triaged_alerts')].ai_analysis =
                     FallbackFor(alerts[Len(triaged_alerts')]).returned
      ]_vars

(* a run of two alerts whose first call failed and whose second call was    *)
(* answered                                                                 *)
C28_Witness ==
    /\ Len(triaged_alerts) = 2
    /\ Len(llm_log) = 2
    /\ llm_log[1].status = "timeout"
    /\ llm_log[2].status = "ok"

(* --------------------------- feedback store ---------------------------- *)

(* no request is being served and no agent is loading *)
Quiescent ==
    /\ \A h \in Handlers : handlers[h].pc = "idle"
    /\ agent_pc = "idle"

(* the entries of the store *)
StoredEntries ==
    LET data == load_json_file(feedback_file, <<>>)
    IN  {data[i] : i \in 1..Len(data)}

(* the responses that reported success *)
Acknowledged == {r \in responses : r.status = 200}

(* C29: an entry whose submission was answered with success is in the store *)
(* whenever no request and no agent load is under way, whatever requests    *)
(* and agent runs came after or alongside it.                               *)
C29_AcknowledgedEntryKept ==
    Quiescent =>
        \A r \in Acknowledged :
            feedback_entry(r.data, r.number) \in StoredEntries

(* C30: a request without a body, without alert_id, with an action other    *)
(* than approved or rejected or with a blank reason is answered with 400    *)
(* and leaves the store as it is; a request that passes the checks writes   *)
(* the entries the store holds at that moment, in their order, followed by  *)
(* one entry with its alert_id, its action and its reason.                  *)
C30_ValidatedAppend ==
    [][ /\ \A r \in responses' \ responses :
               rejects(r.data) =>
                   /\ r.status = 400
                   /\ feedback_file' = feedback_file
        /\ \A h \in Handlers :
               handlers[h].pc = "save" /\ handlers'[h].pc = "dump" =>
                   LET entry == handlers[h].feedback[Len(handlers[h].feedback)]
                   IN  /\ handlers[h].feedback =
                              Append(load_json_file(feedback_file, <<>>),
                                     entry)
                       /\ entry.alert_id = handlers[h].data.alert_id
                       /\ entry.action = handlers[h].data.action
                       /\ entry.reason = strip(handlers[h].data.reason)
      ]_vars

(* the same without the status of a request that has no body *)
C30_BodiesValidated ==
    [][ /\ \A r \in responses' \ responses :
               rejects(r.data) =>
                   /\ r.data # None => r.status = 400
                   /\ feedback_file' = feedback_file
        /\ \A r \in responses' \ responses :
               r.status = 200 =>
                   /\ ~rejects(r.data)
                   /\ feedback_file'.data[Len(feedback_file'.data)] =
                          feedback_entry(r.data, r.number)
      ]_vars

====
